---- MODULE Spec2Model ----
(***************************************************************************)
(* State-machine model of the ActivityPub reminder bot (src/main.py).      *)
(*                                                                         *)
(* Text is modelled as a sequence of one-character strings.  Time is the   *)
(* number of seconds since process start.  Every coroutine (an inbox       *)
(* handler run, a reminder task) advances one action per stretch of code   *)
(* between two suspension points (await of a transport call or of          *)
(* asyncio.sleep), which is the granularity at which asyncio interleaves   *)
(* them.                                                                   *)
(***************************************************************************)
EXTENDS Integers, Sequences, FiniteSets, TLC

(* ------------------------------ bounds -------------------------------- *)

\* Number of inbox requests received during one run.
MaxReq == 1
\* Number of times the clock is observed to advance during one run.
MaxTicks == 2
\* Number of object-fetch requests during one run.
MaxFetch == 3
\* Number of process starts during one run.
MaxStarts == 3
\* Length of the texts the command parser is called with.
MaxLen == 5

(* ------------------------- program constants -------------------------- *)

\* CACHE_TTL = timedelta(minutes=5), in seconds.
CACHE_TTL == 300
SecondsPerMinute == 60
SecondsPerHour == 3600
SecondsPerDay == 86400

\* HOST = "apsig.amase.cc"
HOST == "apsig.amase.cc"
\* USER_ID = "reminder"
USER_ID == <<"r", "e", "m", "i", "n", "d", "e", "r">>
\* actor.id = f"https://{HOST}/actor"
ActorId == "https://apsig.amase.cc/actor"
\* bot_mention_str = f"@{actor.preferredUsername}"
BotMentionStr == <<"@">> \o USER_ID
\* message = "Here's your reminder!"
DefaultMessage == <<"H", "e", "r", "e", "'", "s", " ", "y", "o", "u", "r", " ",
                    "r", "e", "m", "i", "n", "d", "e", "r", "!">>

(* ------------------------------- text --------------------------------- *)

\* Characters matched by \s (and removed by str.strip()).
IsSpace(c) == c \in {" ", "\t", "\n"}
\* Characters matched by \d.
IsDigit(c) == c \in {"0", "1", "2", "3", "4", "5", "6", "7", "8", "9"}
\* int() of one digit.
DigitVal(c) ==
  CASE c = "0" -> 0 [] c = "1" -> 1 [] c = "2" -> 2 [] c = "3" -> 3
    [] c = "4" -> 4 [] c = "5" -> 5 [] c = "6" -> 6 [] c = "7" -> 7
    [] c = "8" -> 8 [] c = "9" -> 9
\* str() of one digit.
DigitChar(d) == <<"0", "1", "2", "3", "4", "5", "6", "7", "8", "9">>[d + 1]

\* Characters matched by (s|m|h|d) under re.IGNORECASE.  Besides both ASCII
\* cases, Unicode case-insensitive matching lets "s" match U+017F (long s),
\* written "LONG_S" here.
MatchesUnit(c) == c \in {"s", "m", "h", "d", "S", "M", "H", "D", "LONG_S"}
\* str.lower() of one character of the model's alphabet.
Lower(c) ==
  CASE c = "S" -> "s" [] c = "M" -> "m" [] c = "H" -> "h" [] c = "D" -> "d"
    [] OTHER -> c

\* s[i..] (1-based), empty when i is past the end.
Drop(s, i) == SubSeq(s, i, Len(s))

\* Index of the first character at or after i that is not whitespace.
RECURSIVE SkipSpace(_, _)
SkipSpace(s, i) ==
  IF i <= Len(s) /\ IsSpace(s[i]) THEN SkipSpace(s, i + 1) ELSE i

\* Index of the first character at or after i that is not a digit.
RECURSIVE SkipDigits(_, _)
SkipDigits(s, i) ==
  IF i <= Len(s) /\ IsDigit(s[i]) THEN SkipDigits(s, i + 1) ELSE i

\* Index of the first newline at or after i, or Len(s)+1: where (.*) stops.
RECURSIVE SkipDot(_, _)
SkipDot(s, i) ==
  IF i <= Len(s) /\ s[i] # "\n" THEN SkipDot(s, i + 1) ELSE i

\* int(value) of a digit string.
RECURSIVE ToInt(_)
ToInt(s) ==
  IF s = <<>> THEN 0
  ELSE 10 * ToInt(SubSeq(s, 1, Len(s) - 1)) + DigitVal(s[Len(s)])

\* f"{value}" of a non-negative integer.
RECURSIVE ToStr(_)
ToStr(n) ==
  IF n < 10 THEN <<DigitChar(n)>> ELSE ToStr(n \div 10) \o <<DigitChar(n % 10)>>

\* str.strip()
RECURSIVE RStrip(_)
RStrip(s) ==
  IF s # <<>> /\ IsSpace(s[Len(s)]) THEN RStrip(SubSeq(s, 1, Len(s) - 1)) ELSE s
Strip(s) == RStrip(Drop(s, SkipSpace(s, 1)))

\* Does pat occur in s at index i?
StartsAt(s, pat, i) ==
  /\ i + Len(pat) - 1 <= Len(s)
  /\ SubSeq(s, i, i + Len(pat) - 1) = pat

\* str.replace(pat, ""): every non-overlapping occurrence, left to right.
RECURSIVE Remove(_, _)
Remove(s, pat) ==
  IF s = <<>> THEN <<>>
  ELSE IF StartsAt(s, pat, 1) THEN Remove(Drop(s, Len(pat) + 1), pat)
  ELSE <<s[1]>> \o Remove(Drop(s, 2), pat)

\* For "<" at index i: the index of the ">" closing the shortest match of
\* <[^<]+?> starting there, or 0 when the pattern does not match at i.
\* j scans the characters after the first one matched by [^<]+?.
RECURSIVE TagEnd(_, _)
TagEnd(s, j) ==
  IF j > Len(s) \/ s[j] = "<" THEN 0
  ELSE IF s[j] = ">" THEN j
  ELSE TagEnd(s, j + 1)
TagClose(s, i) ==
  IF i + 1 > Len(s) \/ s[i + 1] = "<" THEN 0 ELSE TagEnd(s, i + 2)

\* re.sub('<[^<]+?>', '', s)
RECURSIVE StripTags(_)
StripTags(s) ==
  IF s = <<>> THEN <<>>
  ELSE IF s[1] = "<" /\ TagClose(s, 1) # 0 THEN StripTags(Drop(s, TagClose(s, 1) + 1))
  ELSE <<s[1]>> \o StripTags(Drop(s, 2))

\* command_text of on_create_activity.
CommandText(content) == Strip(Remove(StripTags(content), BotMentionStr))

(* ------------------------------ parser -------------------------------- *)

\* The (None, None, None) result; ok distinguishes it from any match.
NoMatch == [ok |-> FALSE, delay |-> 0, message |-> <<>>, time_str |-> <<>>]

\* timedelta(...).total_seconds() for a lower-cased unit.
UnitSeconds(unit) ==
  CASE unit = "s" -> 1
    [] unit = "m" -> SecondsPerMinute
    [] unit = "h" -> SecondsPerHour
    [] unit = "d" -> SecondsPerDay
    [] OTHER -> 0

IsKnownUnit(unit) == unit \in {"s", "m", "h", "d"}

\* parse_reminder: ^\s*(\d+)\s*(s|m|h|d)\s*(.*) with re.IGNORECASE.
parse_reminder(text) ==
  LET d0 == SkipSpace(text, 1)
      d1 == SkipDigits(text, d0)
      u  == SkipSpace(text, d1)
      m0 == SkipSpace(text, u + 1)
      m1 == SkipDot(text, m0)
  IN IF d1 = d0 \/ u > Len(text) \/ ~MatchesUnit(text[u]) THEN NoMatch
     ELSE LET value   == ToInt(SubSeq(text, d0, d1 - 1))
              unit    == Lower(text[u])
              message == SubSeq(text, m0, m1 - 1)
          IN IF ~IsKnownUnit(unit) THEN NoMatch
             ELSE [ok       |-> TRUE,
                   delay    |-> value * UnitSeconds(unit),
                   message  |-> IF Strip(message) = <<>> THEN DefaultMessage
                                ELSE Strip(message),
                   time_str |-> ToStr(value) \o <<unit>>]

(* ------------------------- remote environment ------------------------- *)

Reqs == 1..MaxReq

\* The remote actor that sends request r.  The program keeps no per-actor
\* state and never compares two requests' actors, so each request gets an
\* actor of its own.
SenderOf(r) == <<"users", r>>
NoActorId == <<"users", 0>>

\* The profile document client.actor.fetch(id) returns for a resolvable
\* actor (id, preferredUsername, url): "seen" is the revision the inbox
\* handler fetched, "changed" a later one that differs from it.
Profile(a, rev) == [id |-> a, rev |-> rev]

\* The falsy result of client.actor.fetch (None).
NoActor == [id |-> NoActorId, rev |-> "none"]
\* The fetch raises.
FetchError == [id |-> NoActorId, rev |-> "raise"]

\* Outcomes of a transport call: it returns a value, returns nothing, or raises.
FetchOutcomes(a) == {Profile(a, "seen"), NoActor, FetchError}
RefetchOutcomes(a) == {Profile(a, "seen"), Profile(a, "changed"), NoActor, FetchError}
Raised(res) == res = FetchError
SendOutcomes == {"ok", "raise"}

\* note.content of the incoming mentions.
ContentSecond == <<"<", "p", ">">> \o BotMentionStr
                 \o <<" ", "1", "s", " ", "h", "i", "<", "/", "p", ">">>
ContentZero   == BotMentionStr \o <<" ", "0", "s", " ", "x">>
ContentMinute == BotMentionStr \o <<" ", "1", "M">>
ContentHello  == BotMentionStr \o <<" ", "h", "i">>
Contents == {ContentSecond, ContentZero, ContentMinute, ContentHello}

\* The activities the transport hands to the dispatcher (already verified).
\* object is the type of activity.object; mention is the href of the
\* Mention tag of the note ("" when the note has no tag).
Follows(r) == [type : {"Follow"}, actor : {SenderOf(r)}, object : {"Actor"},
               mention : {""}, content : {<<>>}]
Creates(r) == [type : {"Create"}, actor : {SenderOf(r)}, object : {"Note"},
               mention : {ActorId}, content : Contents]
              \cup [type : {"Create"}, actor : {SenderOf(r)}, object : {"Note"},
                    mention : {"", "https://example.org/users/carol"},
                    content : {ContentSecond}]
              \cup [type : {"Create"}, actor : {SenderOf(r)}, object : {"Question"},
                    mention : {ActorId}, content : {ContentSecond}]

(* ------------------------------ key file ------------------------------ *)

\* Key(0) is a key made before the first start of a run; Key(g), g > 0, is
\* the g-th key rsa.generate_private_key returns during the run.
Key(n) == <<"rsa", n>>
NoKey == <<"none", 0>>

\* What KEY_FILE can hold: nothing (no such file), bytes that are no PEM
\* private key (an empty or cut-off file too), a passphrase-protected PEM,
\* or an unencrypted PEM private key in one of the two usual formats.
NoFile == [kind |-> "absent", key |-> NoKey]
Garbled == [kind |-> "garbled", key |-> NoKey]
EncryptedPem(k) == [kind |-> "encrypted", key |-> k]
TraditionalPem(k) == [kind |-> "TraditionalOpenSSL", key |-> k]
\* private_key.private_bytes(PEM, PKCS8, NoEncryption())
private_bytes(k) == [kind |-> "PKCS8", key |-> k]

\* load_pem_private_key(data, password=None) returns a key for an
\* unencrypted PEM private key and raises for anything else.
Parsable(data) == data.kind \in {"PKCS8", "TraditionalOpenSSL"}
load_pem_private_key(data) == data.key

\* private_key.public_key().public_bytes(PEM, SubjectPublicKeyInfo)
public_bytes(k) == <<"SubjectPublicKeyInfo", k>>
NoPem == <<"none", NoKey>>

\* The key files a first start can find.
InitialFiles == {NoFile, Garbled, EncryptedPem(Key(0)), TraditionalPem(Key(0)),
                 private_bytes(Key(0))}

\* How writing the new key file can end: written; created but cut short
\* (the write fails or the process is killed); not created (open fails).
WriteOutcomes == {"ok", "truncated", "refused"}

(* ----------------------------- discovery ------------------------------ *)

\* An absent or empty field of the WebfingerResource (None or "").
Falsy(v) == v = ""

\* A user name that is not USER_ID.
Alice == <<"a", "l", "i", "c", "e">>

\* The WebfingerResource values queried: acct:user@host resources carry
\* username and host, URL resources carry url.
Usernames == {<<>>, USER_ID, <<"R">> \o Drop(USER_ID, 2), USER_ID \o <<"2">>, Alice}
Hosts == {"", HOST, "APSIG.AMASE.CC", "example.org"}
Urls == {"", ActorId, "https://apsig.amase.cc/actor/", "http://apsig.amase.cc/actor",
         "https://apsig.amase.cc/inbox", "https://example.org/actor"}
Accts == [username : Usernames, host : Hosts, url : Urls]
NoAcct == [username |-> <<>>, host |-> "", url |-> ""]

\* WebfingerLink(rel="self", type="application/activity+json", href=actor.id)
SelfLink == [rel |-> "self", type |-> "application/activity+json", href |-> ActorId]
\* No discovery query answered yet.
NoLookup == [acct |-> NoAcct, status |-> 0, links |-> <<>>]

(* ------------------------------- state -------------------------------- *)

VARIABLES
  now,             \* the clock: seconds since start
  ticks,           \* number of clock advances so far
  ACTIVITY_STORE,  \* uri -> activity
  CACHE,           \* uri -> [activity, timestamp]
  uuids,           \* number of uuid.uuid4() values minted
  req,             \* inbox request -> its handler's locals and position
  task,            \* inbox request -> the reminder task it created
  deliveries,      \* inbox request -> log of the ctx.send calls made for it
  fetches,         \* number of object-fetch requests handled
  lastFetch,       \* response of the latest object-fetch request
  answers,         \* uri -> what the object-fetch endpoints have answered
  keyFile,         \* contents of KEY_FILE on disk
  private_key,     \* the module global private_key of the running process
  public_key_pem,  \* the module global public_key_pem of the running process
  proc,            \* "down", "up" (serving) or "failed" (the start raised)
  startLog,        \* one entry per process start so far
  published,       \* <<start number, publicKeyPem>> of the actor documents served
  text,            \* the argument of one call of parse_reminder
  result,          \* what that call returned
  webfinger        \* the latest discovery query and its response

\* The state of the inbox, the reminder tasks and the object-fetch endpoints.
appVars == <<now, ticks, ACTIVITY_STORE, CACHE, uuids, req, task, deliveries,
             fetches, lastFetch, answers>>
\* The key on disk and in the process.
keyVars == <<keyFile, private_key, public_key_pem, proc, startLog, published>>
\* One call of the command parser.
parseVars == <<text, result>>

vars == <<now, ticks, ACTIVITY_STORE, CACHE, uuids, req, task, deliveries,
          fetches, lastFetch, answers, keyFile, private_key, public_key_pem,
          proc, startLog, published, text, result, webfinger>>

NoUri == <<"none", 0>>
NoteUri(n) == <<"notes", n>>
CreateUri(n) == <<"creates", n>>

NoContent == [kind |-> "none", time_str |-> <<>>, message |-> <<>>, who |-> NoActor]
NoNote == [id |-> NoUri, inReplyTo |-> 0, content |-> NoContent, to |-> NoActorId,
           tag |-> NoActor]
NoActivity == [type |-> "none", id |-> NoUri, to |-> NoActorId, object |-> NoNote]

\* fetched is how the handler's actor fetch ended ("-" while it has not);
\* status is the response (0 while there is none): 202 or 400 as returned,
\* 500 for an exception that leaves the handler.
\* act is the activity the handler was called with.
NoAct == [type |-> "none", actor |-> NoActorId, object |-> "", mention |-> "",
          content |-> <<>>]
IdleReq == [pc |-> "idle", type |-> "none", actor |-> NoActorId, mentioned |-> FALSE,
            parsed |-> NoMatch, fetched |-> "-", sender |-> NoActor, status |-> 0,
            act |-> NoAct]
\* refetched is how the task's re-fetch of its target ended ("-" while it has
\* not): "ok", "none" (a falsy result) or "raise".
NoTask == [pc |-> "none", delay |-> 0, message |-> <<>>, target |-> NoActor,
           deadline |-> 0, refetched |-> "-"]
\* cache is what the request found in CACHE: "fresh" (served from it, the
\* store is not read), "expired" or "absent" (the store is read).
NoFetch == [uri |-> NoUri, status |-> 0, activity |-> NoActivity, cache |-> "-",
            time |-> 0]

\* The uuids the object-fetch endpoints are asked for: those of the first
\* reply (its note is /notes/1, its create /creates/2; /notes/2 and
\* /creates/1 name nothing).
ProbeIds == {1, 2}
ProbeUris == {NoteUri(n) : n \in ProbeIds} \cup {CreateUri(n) : n \in ProbeIds}

\* Nothing answered yet for a URI: no 404, no 200.
NoAnswer == [missed |-> FALSE, served |-> NoActivity]

\* No discovery query, no call of the parser observed.
NotCalled == [called |-> FALSE, value |-> NoMatch]
Quiet ==
  /\ text = <<>>
  /\ result = NotCalled
  /\ webfinger = NoLookup

\* The process as its first start leaves it when it finds no key file.
FirstStart == [found |-> NoFile, left |-> private_bytes(Key(1)), generated |-> TRUE,
               key |-> Key(1), ok |-> TRUE]
Started ==
  /\ keyFile = private_bytes(Key(1))
  /\ private_key = Key(1)
  /\ public_key_pem = public_bytes(Key(1))
  /\ proc = "up"
  /\ startLog = <<FirstStart>>
  /\ published = {}

\* ACTIVITY_STORE = {}, CACHE = {}, no request received yet.
InitApp ==
  /\ now = 0
  /\ ticks = 0
  /\ ACTIVITY_STORE = <<>>
  /\ CACHE = <<>>
  /\ uuids = 0
  /\ req = [r \in Reqs |-> IdleReq]
  /\ task = [r \in Reqs |-> NoTask]
  /\ deliveries = [r \in Reqs |-> <<>>]
  /\ fetches = 0
  /\ lastFetch = NoFetch
  /\ answers = [u \in ProbeUris |-> NoAnswer]

\* The running process before its first request.
Init == InitApp /\ Started /\ Quiet

\* d[k] = v, inserting or overwriting.
Put(d, k, v) == (k :> v) @@ d

(* ------------------------------ clock --------------------------------- *)

\* Amounts by which the clock is seen to advance between two events.
TickSteps == {1, CACHE_TTL - 1}

Tick(d) ==
  /\ ticks < MaxTicks
  /\ now' = now + d
  /\ ticks' = ticks + 1
  /\ UNCHANGED <<keyVars, parseVars, webfinger>>
  /\ UNCHANGED <<ACTIVITY_STORE, CACHE, uuids, req, task, deliveries, fetches,
                 lastFetch, answers>>

(* ------------------------- activities built --------------------------- *)

\* Mutant of MakeNote: every note gets the id of the first one.
MakeNoteReusingId(n, inReplyTo, content, target) ==
  [id |-> NoteUri(1), inReplyTo |-> inReplyTo, content |-> content,
   to |-> target.id, tag |-> target]

\* Note(id=.../notes/{uuid}, attributedTo=actor.id, inReplyTo=..., content=...,
\*      to=[target.id], tag=[Mention(href=target.id, name=@preferredUsername)])
MakeNote(n, inReplyTo, content, target) ==
  [id |-> NoteUri(n), inReplyTo |-> inReplyTo, content |-> content,
   to |-> target.id, tag |-> target]

\* Create(id=.../creates/{uuid}, actor=actor.id, object=note, to=[target.id])
MakeCreate(n, note, target) ==
  [type |-> "Create", id |-> CreateUri(n), to |-> target.id, object |-> note]

\* What the store holds under a note's URI.
NoteActivity(note) ==
  [type |-> "Note", id |-> note.id, to |-> note.to, object |-> note]

\* Mutant of StoreBoth: only the create is stored, its note is not.
StoreCreateOnly(store, note, create) ==
  Put(store, create.id, create)

\* Mutant of StoreBoth: the store is rebuilt with the new pair alone.
StoreBothEvicting(store, note, create) ==
  Put(Put(<<>>, note.id, NoteActivity(note)), create.id, create)

\* ACTIVITY_STORE[note.id] = note; ACTIVITY_STORE[create.id] = create
StoreBoth(store, note, create) ==
  Put(Put(store, note.id, NoteActivity(note)), create.id, create)

\* One ctx.send call, the delivery attempt, appended to the request's log.
Deliver(r, what, target, uri) ==
  [deliveries EXCEPT ![r] = Append(@, [what |-> what, to |-> target.id,
                                        activity |-> uri])]

(* --------------------------- Follow handler --------------------------- *)

\* A request is dispatched when the transport hands over its activity.
Arrives(r) ==
  /\ req[r].pc = "idle"
  /\ \A q \in Reqs : q < r => req[q].pc # "idle"

\* The handler ends after its fetch ended as `fetched`.
Finish(r, fetched, status) ==
  [req EXCEPT ![r].pc = "done", ![r].fetched = fetched, ![r].status = status]
\* The outcome of a fetch, as recorded in req[r].fetched.
Outcome(res) == IF Raised(res) THEN "raise" ELSE IF res = NoActor THEN "none" ELSE "ok"

\* on_follow_activity up to the await of client.actor.fetch.
on_follow_activity(r, act) ==
  /\ Arrives(r)
  /\ act.type = "Follow"
  /\ req' = [req EXCEPT ![r] = [IdleReq EXCEPT !.pc = "fetch", !.type = "Follow",
                                               !.actor = act.actor, !.act = act]]
  /\ UNCHANGED <<keyVars, parseVars, webfinger>>
  /\ UNCHANGED <<now, ticks, ACTIVITY_STORE, CACHE, uuids, task, deliveries,
                 fetches, lastFetch, answers>>

\* The fetch returns: 400 for a falsy actor, else build the Accept and call
\* ctx.send.  An exception of the fetch leaves the handler (a 500 response).
FollowFetched(r, res) ==
  /\ req[r].type = "Follow"
  /\ req[r].pc = "fetch"
  /\ IF Raised(res)
     THEN req' = Finish(r, "raise", 500) /\ UNCHANGED deliveries
     ELSE IF res = NoActor
     THEN req' = Finish(r, "none", 400) /\ UNCHANGED deliveries
     ELSE /\ req' = [req EXCEPT ![r].pc = "send", ![r].fetched = "ok",
                                ![r].sender = res]
          /\ deliveries' = Deliver(r, "Accept", res, NoUri)
  /\ UNCHANGED <<keyVars, parseVars, webfinger>>
  /\ UNCHANGED <<now, ticks, ACTIVITY_STORE, CACHE, uuids, task, fetches,
                 lastFetch, answers>>

\* ctx.send returns (202) or raises (the exception leaves the handler).
FollowSent(r, out) ==
  /\ req[r].type = "Follow"
  /\ req[r].pc = "send"
  /\ req' = Finish(r, "ok", IF out = "ok" THEN 202 ELSE 500)
  /\ UNCHANGED <<keyVars, parseVars, webfinger>>
  /\ UNCHANGED <<now, ticks, ACTIVITY_STORE, CACHE, uuids, task, deliveries,
                 fetches, lastFetch, answers>>

(* --------------------------- Create handler --------------------------- *)

\* Mutant of IsMentioned: any Mention tag counts, whoever it names.
IsMentionedByAnyTag(act) == act.mention # ""

\* is_mentioned: some Mention tag of the note has href == actor.id.
IsMentioned(act) == act.mention = ActorId

\* on_create_activity up to the await of client.actor.fetch.
on_create_activity(r, act) ==
  /\ Arrives(r)
  /\ act.type = "Create"
  /\ IF act.object # "Note" \/ ~IsMentioned(act)
     THEN req' = [req EXCEPT ![r] = [IdleReq EXCEPT !.pc = "done", !.type = "Create",
                                                  !.actor = act.actor, !.status = 202,
                                                  !.act = act]]
     ELSE req' = [req EXCEPT ![r] =
                    [IdleReq EXCEPT !.pc = "fetch", !.type = "Create",
                                    !.actor = act.actor, !.mentioned = TRUE,
                                    !.parsed = parse_reminder(CommandText(act.content)),
                                    !.act = act]]
  /\ UNCHANGED <<keyVars, parseVars, webfinger>>
  /\ UNCHANGED <<now, ticks, ACTIVITY_STORE, CACHE, uuids, task, deliveries,
                 fetches, lastFetch, answers>>

\* if delay and message and sender_actor: a zero timedelta, an empty string
\* and None are falsy.
ShouldArm(p, sender) ==
  /\ p.ok
  /\ p.delay # 0
  /\ p.message # <<>>
  /\ sender # NoActor

\* reply_content: the acknowledgement naming time_str, or the usage help.
ReplyContent(p, sender) ==
  IF ShouldArm(p, sender)
  THEN [kind |-> "ack", time_str |-> p.time_str, message |-> <<>>, who |-> NoActor]
  ELSE [kind |-> "help", time_str |-> <<>>, message |-> <<>>, who |-> NoActor]

\* asyncio.create_task(send_reminder(ctx, delay, message, sender_actor, note))
NewTask(p, sender) ==
  [pc |-> "created", delay |-> p.delay, message |-> p.message, target |-> sender,
   deadline |-> 0, refetched |-> "-"]

\* Mutant of CreateFetched: the reply is built and stored but ctx.send is
\* never called for it.
CreateFetchedNoReply(r, res) ==
  /\ req[r].type = "Create"
  /\ req[r].pc = "fetch"
  /\ IF Raised(res) \/ res = NoActor
     THEN /\ req' = Finish(r, Outcome(res), 500)
          /\ UNCHANGED <<ACTIVITY_STORE, uuids, task>>
     ELSE LET p      == req[r].parsed
              note   == MakeNote(uuids + 1, r, ReplyContent(p, res), res)
              create == MakeCreate(uuids + 2, note, res)
          IN /\ task' = IF ShouldArm(p, res)
                        THEN [task EXCEPT ![r] = NewTask(p, res)]
                        ELSE task
             /\ uuids' = uuids + 2
             /\ ACTIVITY_STORE' = StoreBoth(ACTIVITY_STORE, note, create)
             /\ req' = [req EXCEPT ![r].pc = "send", ![r].fetched = "ok",
                                   ![r].sender = res]
  /\ UNCHANGED <<keyVars, parseVars, webfinger>>
  /\ UNCHANGED <<now, ticks, CACHE, deliveries, fetches, lastFetch, answers>>

\* The fetch returns: arm the task when the command was accepted, build and
\* store the reply, call ctx.send.  A falsy sender makes sender_actor.id fail
\* while the reply note is built; that exception, as one of the fetch, leaves
\* the handler (a 500 response).
CreateFetched(r, res) ==
  /\ req[r].type = "Create"
  /\ req[r].pc = "fetch"
  /\ IF Raised(res) \/ res = NoActor
     THEN /\ req' = Finish(r, Outcome(res), 500)
          /\ UNCHANGED <<ACTIVITY_STORE, uuids, task, deliveries>>
     ELSE LET p      == req[r].parsed
              note   == MakeNote(uuids + 1, r, ReplyContent(p, res), res)
              create == MakeCreate(uuids + 2, note, res)
          IN /\ task' = IF ShouldArm(p, res)
                        THEN [task EXCEPT ![r] = NewTask(p, res)]
                        ELSE task
             /\ uuids' = uuids + 2
             /\ ACTIVITY_STORE' = StoreBoth(ACTIVITY_STORE, note, create)
             /\ deliveries' = Deliver(r, "reply", res, create.id)
             /\ req' = [req EXCEPT ![r].pc = "send", ![r].fetched = "ok",
                                   ![r].sender = res]
  /\ UNCHANGED <<keyVars, parseVars, webfinger>>
  /\ UNCHANGED <<now, ticks, CACHE, fetches, lastFetch, answers>>

\* ctx.send returns (202) or raises (the exception leaves the handler).
CreateSent(r, out) ==
  /\ req[r].type = "Create"
  /\ req[r].pc = "send"
  /\ req' = Finish(r, "ok", IF out = "ok" THEN 202 ELSE 500)
  /\ UNCHANGED <<keyVars, parseVars, webfinger>>
  /\ UNCHANGED <<now, ticks, ACTIVITY_STORE, CACHE, uuids, task, deliveries,
                 fetches, lastFetch, answers>>

(* ---------------------------- reminder task --------------------------- *)

\* The task's first step: up to the await of asyncio.sleep(delay).
ReminderStart(r) ==
  /\ task[r].pc = "created"
  /\ task' = [task EXCEPT ![r].pc = "sleeping", ![r].deadline = now + task[r].delay]
  /\ UNCHANGED <<keyVars, parseVars, webfinger>>
  /\ UNCHANGED <<now, ticks, ACTIVITY_STORE, CACHE, uuids, req, deliveries,
                 fetches, lastFetch, answers>>

\* The sleep is over: up to the await of client.actor.fetch(target_actor.id).
ReminderWake(r) ==
  /\ task[r].pc = "sleeping"
  /\ now >= task[r].deadline
  /\ task' = [task EXCEPT ![r].pc = "refetch", ![r].deadline = 0]
  /\ UNCHANGED <<keyVars, parseVars, webfinger>>
  /\ UNCHANGED <<now, ticks, ACTIVITY_STORE, CACHE, uuids, req, deliveries,
                 fetches, lastFetch, answers>>

\* target_actor after the try/except around the re-fetch: an exception keeps
\* the snapshot, any returned value (None too) replaces it.
Refetched(target, res) == IF Raised(res) THEN target ELSE res

\* The re-fetch is over: build and store the reminder, call ctx.send.  With
\* target_actor None, target_actor.id fails and the task ends there.
ReminderRefetched(r, res) ==
  /\ task[r].pc = "refetch"
  /\ LET target == Refetched(task[r].target, res)
         content == [kind |-> "reminder", time_str |-> <<>>,
                     message |-> task[r].message, who |-> target]
         note   == MakeNote(uuids + 1, r, content, target)
         create == MakeCreate(uuids + 2, note, target)
     IN IF target = NoActor
        THEN /\ task' = [task EXCEPT ![r].pc = "crashed", ![r].target = target,
                                      ![r].refetched = Outcome(res)]
             /\ UNCHANGED <<ACTIVITY_STORE, uuids, deliveries>>
        ELSE /\ task' = [task EXCEPT ![r].pc = "sending", ![r].target = target,
                                      ![r].refetched = Outcome(res)]
             /\ uuids' = uuids + 2
             /\ ACTIVITY_STORE' = StoreBoth(ACTIVITY_STORE, note, create)
             /\ deliveries' = Deliver(r, "reminder", target, create.id)
  /\ UNCHANGED <<keyVars, parseVars, webfinger>>
  /\ UNCHANGED <<now, ticks, CACHE, req, fetches, lastFetch, answers>>

\* ctx.send returns or raises: the task ends either way.
ReminderSent(r, out) ==
  /\ task[r].pc = "sending"
  /\ task' = [task EXCEPT ![r].pc = IF out = "ok" THEN "done" ELSE "failed"]
  /\ UNCHANGED <<keyVars, parseVars, webfinger>>
  /\ UNCHANGED <<now, ticks, ACTIVITY_STORE, CACHE, uuids, req, deliveries,
                 fetches, lastFetch, answers>>

(* ----------------------- object-fetch endpoints ----------------------- *)

\* Mutant of CacheFresh: the entry expires one second early.
CacheFreshShort(uri) ==
  /\ uri \in DOMAIN CACHE
  /\ (now - CACHE[uri].timestamp) < CACHE_TTL - 1

\* Mutant of CacheFresh: the comparison is <=, not <.
CacheFreshInclusive(uri) ==
  /\ uri \in DOMAIN CACHE
  /\ (now - CACHE[uri].timestamp) <= CACHE_TTL

\* uri in CACHE and (datetime.now() - CACHE[uri]["timestamp"]) < CACHE_TTL
CacheFresh(uri) ==
  /\ uri \in DOMAIN CACHE
  /\ (now - CACHE[uri].timestamp) < CACHE_TTL

\* The response to one object-fetch request, and what it found in CACHE.
Response(uri, status, activity, cache) ==
  [uri |-> uri, status |-> status, activity |-> activity, cache |-> cache,
   time |-> now]

\* Mutant of Serve: a not-found result is cached too.
ServeCachingNotFound(uri) ==
  /\ fetches < MaxFetch
  /\ fetches' = fetches + 1
  /\ IF CacheFresh(uri)
     THEN /\ lastFetch' = Response(uri, IF CACHE[uri].activity = NoActivity
                                        THEN 404 ELSE 200,
                                   CACHE[uri].activity, "fresh")
          /\ UNCHANGED CACHE
     ELSE LET found == IF uri \in DOMAIN CACHE THEN "expired" ELSE "absent"
              activity == IF uri \in DOMAIN ACTIVITY_STORE
                          THEN ACTIVITY_STORE[uri] ELSE NoActivity
          IN /\ CACHE' = Put(CACHE, uri, [activity |-> activity, timestamp |-> now])
             /\ lastFetch' = Response(uri, IF activity = NoActivity THEN 404 ELSE 200,
                                      activity, found)
  /\ answers' = [answers EXCEPT ![uri] =
                   IF lastFetch'.status = 404 THEN [@ EXCEPT !.missed = TRUE]
                   ELSE IF @.served = NoActivity
                   THEN [@ EXCEPT !.served = lastFetch'.activity]
                   ELSE @]
  /\ UNCHANGED <<keyVars, parseVars, webfinger>>
  /\ UNCHANGED <<now, ticks, ACTIVITY_STORE, uuids, req, task, deliveries>>

\* Mutant of Serve: a hit renews the entry's timestamp.
ServeSliding(uri) ==
  /\ fetches < MaxFetch
  /\ fetches' = fetches + 1
  /\ IF CacheFresh(uri)
     THEN /\ lastFetch' = Response(uri, 200, CACHE[uri].activity, "fresh")
          /\ CACHE' = Put(CACHE, uri, [activity |-> CACHE[uri].activity,
                                       timestamp |-> now])
     ELSE LET found == IF uri \in DOMAIN CACHE THEN "expired" ELSE "absent"
          IN IF uri \in DOMAIN ACTIVITY_STORE
             THEN /\ CACHE' = Put(CACHE, uri, [activity |-> ACTIVITY_STORE[uri],
                                               timestamp |-> now])
                  /\ lastFetch' = Response(uri, 200, ACTIVITY_STORE[uri], found)
             ELSE /\ lastFetch' = Response(uri, 404, NoActivity, found)
                  /\ UNCHANGED CACHE
  /\ answers' = [answers EXCEPT ![uri] =
                   IF lastFetch'.status = 404 THEN [@ EXCEPT !.missed = TRUE]
                   ELSE IF @.served = NoActivity
                   THEN [@ EXCEPT !.served = lastFetch'.activity]
                   ELSE @]
  /\ UNCHANGED <<keyVars, parseVars, webfinger>>
  /\ UNCHANGED <<now, ticks, ACTIVITY_STORE, uuids, req, task, deliveries>>

\* The body shared by get_note_endpoint and get_create_endpoint.
Serve(uri) ==
  /\ fetches < MaxFetch
  /\ fetches' = fetches + 1
  /\ IF CacheFresh(uri)
     THEN /\ lastFetch' = Response(uri, 200, CACHE[uri].activity, "fresh")
          /\ UNCHANGED CACHE
     ELSE LET found == IF uri \in DOMAIN CACHE THEN "expired" ELSE "absent"
          IN IF uri \in DOMAIN ACTIVITY_STORE
             THEN /\ CACHE' = Put(CACHE, uri, [activity |-> ACTIVITY_STORE[uri],
                                               timestamp |-> now])
                  /\ lastFetch' = Response(uri, 200, ACTIVITY_STORE[uri], found)
             ELSE /\ lastFetch' = Response(uri, 404, NoActivity, found)
                  /\ UNCHANGED CACHE
  /\ answers' = [answers EXCEPT ![uri] =
                   IF lastFetch'.status = 404 THEN [@ EXCEPT !.missed = TRUE]
                   ELSE IF @.served = NoActivity
                   THEN [@ EXCEPT !.served = lastFetch'.activity]
                   ELSE @]
  /\ UNCHANGED <<keyVars, parseVars, webfinger>>
  /\ UNCHANGED <<now, ticks, ACTIVITY_STORE, uuids, req, task, deliveries>>

get_note_endpoint(n) == Serve(NoteUri(n))
get_create_endpoint(n) == Serve(CreateUri(n))

(* --------------------------- specification ---------------------------- *)

Next ==
  \/ \E d \in TickSteps : Tick(d)
  \/ \E r \in Reqs : \E act \in Follows(r) : on_follow_activity(r, act)
  \/ \E r \in Reqs : \E res \in FetchOutcomes(req[r].actor) : FollowFetched(r, res)
  \/ \E r \in Reqs, out \in SendOutcomes : FollowSent(r, out)
  \/ \E r \in Reqs : \E act \in Creates(r) : on_create_activity(r, act)
  \/ \E r \in Reqs : \E res \in FetchOutcomes(req[r].actor) : CreateFetched(r, res)
  \/ \E r \in Reqs, out \in SendOutcomes : CreateSent(r, out)
  \/ \E r \in Reqs : ReminderStart(r)
  \/ \E r \in Reqs : ReminderWake(r)
  \/ \E r \in Reqs : \E res \in RefetchOutcomes(task[r].target.id) :
       ReminderRefetched(r, res)
  \/ \E r \in Reqs, out \in SendOutcomes : ReminderSent(r, out)
  \/ \E n \in ProbeIds : get_note_endpoint(n)
  \/ \E n \in ProbeIds : get_create_endpoint(n)

Spec == Init /\ [][Next]_vars

\* The inbox and the reminder tasks alone: runs in which no object is fetched.
NextInbox ==
  \/ \E d \in TickSteps : Tick(d)
  \/ \E r \in Reqs : \E act \in Follows(r) : on_follow_activity(r, act)
  \/ \E r \in Reqs : \E res \in FetchOutcomes(req[r].actor) : FollowFetched(r, res)
  \/ \E r \in Reqs, out \in SendOutcomes : FollowSent(r, out)
  \/ \E r \in Reqs : \E act \in Creates(r) : on_create_activity(r, act)
  \/ \E r \in Reqs : \E res \in FetchOutcomes(req[r].actor) : CreateFetched(r, res)
  \/ \E r \in Reqs, out \in SendOutcomes : CreateSent(r, out)
  \/ \E r \in Reqs : ReminderStart(r)
  \/ \E r \in Reqs : ReminderWake(r)
  \/ \E r \in Reqs : \E res \in RefetchOutcomes(task[r].target.id) :
       ReminderRefetched(r, res)
  \/ \E r \in Reqs, out \in SendOutcomes : ReminderSent(r, out)

SpecInbox == Init /\ [][NextInbox]_vars

(* --------------------------- process start ---------------------------- *)

\* Number of keys rsa.generate_private_key has returned so far.
Generated == Cardinality({i \in 1..Len(startLog) : startLog[i].generated})

\* One start ends: the file is left as `left`; when the module-level code
\* ran to its end (ok) the process serves with `key`, otherwise it is gone.
Ran(left, generated, key, ok) ==
  /\ keyFile' = left
  /\ private_key' = (IF ok THEN key ELSE NoKey)
  /\ public_key_pem' = (IF ok THEN public_bytes(key) ELSE NoPem)
  /\ proc' = (IF ok THEN "up" ELSE "failed")
  /\ startLog' = Append(startLog, [found |-> keyFile, left |-> left,
                                   generated |-> generated,
                                   key |-> IF ok THEN key ELSE NoKey, ok |-> ok])

\* Mutant of StartProcess: the existence test is dropped, every start
\* generates a key and writes the file.
StartProcessRegenerating(out) ==
  /\ proc # "up"
  /\ Len(startLog) < MaxStarts
  /\ LET k == Key(Generated + 1)
     IN CASE out = "ok"        -> Ran(private_bytes(k), TRUE, k, TRUE)
          [] out = "truncated" -> Ran(Garbled, TRUE, k, FALSE)
          [] out = "refused"   -> Ran(NoFile, TRUE, k, FALSE)
  /\ UNCHANGED published
  /\ UNCHANGED <<appVars, parseVars, webfinger>>

\* The module-level code up to the definition of public_key_pem: load the
\* key when KEY_FILE exists, else generate one and write it.  `out` is how
\* the write ends when there is one.
StartProcess(out) ==
  /\ proc # "up"
  /\ Len(startLog) < MaxStarts
  /\ IF keyFile # NoFile
     THEN IF Parsable(keyFile)
          THEN Ran(keyFile, FALSE, load_pem_private_key(keyFile), TRUE)
          ELSE Ran(keyFile, FALSE, NoKey, FALSE)
     ELSE LET k == Key(Generated + 1)
          IN CASE out = "ok"        -> Ran(private_bytes(k), TRUE, k, TRUE)
               [] out = "truncated" -> Ran(Garbled, TRUE, k, FALSE)
               [] out = "refused"   -> Ran(NoFile, TRUE, k, FALSE)
  /\ UNCHANGED published
  /\ UNCHANGED <<appVars, parseVars, webfinger>>

\* The serving process exits; its globals are gone, the file stays.
StopProcess ==
  /\ proc = "up"
  /\ proc' = "down"
  /\ private_key' = NoKey
  /\ public_key_pem' = NoPem
  /\ UNCHANGED <<keyFile, startLog, published>>
  /\ UNCHANGED <<appVars, parseVars, webfinger>>

\* GET /actor: the actor document, whose publicKeyPem is public_key_pem.
get_actor_endpoint ==
  /\ proc = "up"
  /\ published' = published \cup {<<Len(startLog), public_key_pem>>}
  /\ UNCHANGED <<keyFile, private_key, public_key_pem, proc, startLog>>
  /\ UNCHANGED <<appVars, parseVars, webfinger>>

\* Before the first start of a run.
InitKey ==
  /\ InitApp
  /\ Quiet
  /\ keyFile \in InitialFiles
  /\ private_key = NoKey
  /\ public_key_pem = NoPem
  /\ proc = "down"
  /\ startLog = <<>>
  /\ published = {}

NextKey ==
  \/ \E out \in WriteOutcomes : StartProcess(out)
  \/ StopProcess
  \/ get_actor_endpoint

\* Starts and stops of the process over one key file.
SpecKey == InitKey /\ [][NextKey]_vars

(* --------------------------- command parser --------------------------- *)

\* The characters of the texts parsed: both kinds of whitespace, digits,
\* units in both cases, the long s, and a character that is none of these.
Alphabet == {" ", "\n", "0", "1", "s", "M", "LONG_S", "x"}
Texts == UNION {[1..n -> Alphabet] : n \in 0..MaxLen}

\* One call parse_reminder(text).
Parse ==
  /\ ~result.called
  /\ result' = [called |-> TRUE, value |-> parse_reminder(text)]
  /\ UNCHANGED <<text, webfinger>>
  /\ UNCHANGED <<appVars, keyVars>>

InitParse ==
  /\ InitApp
  /\ Started
  /\ text \in Texts
  /\ result = NotCalled
  /\ webfinger = NoLookup

NextParse == Parse

\* The command parser applied to every text of the alphabet.
SpecParse == InitParse /\ [][NextParse]_vars

(* ------------------------ discovery endpoint -------------------------- *)

\* Mutant of WebfingerResult: a URL resource is never found.
WebfingerResultHandleOnly(acct) ==
  IF Falsy(acct.url) /\ acct.username = USER_ID /\ acct.host = HOST
  THEN [acct |-> acct, status |-> 200, links |-> <<SelfLink>>]
  ELSE [acct |-> acct, status |-> 404, links |-> <<>>]

\* The body of webfinger_endpoint: its status and the links of its document.
WebfingerResult(acct) ==
  IF Falsy(acct.url)
  THEN IF acct.username = USER_ID /\ acct.host = HOST
       THEN [acct |-> acct, status |-> 200, links |-> <<SelfLink>>]
       ELSE [acct |-> acct, status |-> 404, links |-> <<>>]
  ELSE IF acct.url = "https://" \o HOST \o "/actor"
       THEN [acct |-> acct, status |-> 200, links |-> <<SelfLink>>]
       ELSE [acct |-> acct, status |-> 404, links |-> <<>>]

webfinger_endpoint(acct) ==
  /\ webfinger' = WebfingerResult(acct)
  /\ UNCHANGED <<appVars, keyVars, parseVars>>

NextDiscovery == \E acct \in Accts : webfinger_endpoint(acct)

\* The discovery endpoint of the running process.
SpecDiscovery == Init /\ [][NextDiscovery]_vars

(* ------------------------- reading the state -------------------------- *)

\* The positions in request r's log of the ctx.send calls of one kind.
Attempts(r, what) ==
  {i \in 1..Len(deliveries[r]) : deliveries[r][i].what = what}

\* The content of the note a delivered Create carries.
ContentOf(d) == ACTIVITY_STORE[d.activity].object.content

\* The positions of the replies of one kind ("ack" or "help").
Replies(r, kind) ==
  {i \in Attempts(r, "reply") : ContentOf(deliveries[r][i]).kind = kind}

\* Request r is a mention handled by the Create handler.
IsMention(r) == req[r].type = "Create" /\ req[r].mentioned

\* The reminder task of r is still to make its delivery attempt.
TaskPending(r) == task[r].pc \in {"created", "sleeping", "refetch"}
\* The reminder task of r has ended.
TaskOver(r) == task[r].pc \in {"done", "failed", "crashed"}

(* ------------------------------- claims ------------------------------- *)

\* C1 (as stated; refuted): for every mention whose command text the parser
\* accepts and whose sender resolves, the handler makes exactly one
\* acknowledgement delivery attempt to the sender, at most one reminder
\* delivery attempt is ever made, it is addressed to the sender, and once no
\* reminder task of the request is pending exactly one has been made.
C1_OneAckOneReminder ==
  \A r \in Reqs :
    (IsMention(r) /\ req[r].parsed.ok /\ req[r].fetched = "ok") =>
      /\ Cardinality(Replies(r, "ack")) = 1
      /\ \A i \in Replies(r, "ack") : deliveries[r][i].to = req[r].actor
      /\ Cardinality(Attempts(r, "reminder")) <= 1
      /\ \A i \in Attempts(r, "reminder") : deliveries[r][i].to = req[r].actor
      /\ (~TaskPending(r) => Cardinality(Attempts(r, "reminder")) = 1)

\* C2 (as stated; refuted): a finished Follow whose actor fetch returned an
\* actor made exactly one Accept delivery attempt and answered 202; one whose
\* fetch returned nothing or raised answered 400 and made no delivery attempt.
C2_FollowAcceptOr400 ==
  \A r \in Reqs :
    (req[r].type = "Follow" /\ req[r].pc = "done") =>
      IF req[r].fetched = "ok"
      THEN req[r].status = 202 /\ Cardinality(Attempts(r, "Accept")) = 1
      ELSE req[r].status = 400 /\ Len(deliveries[r]) = 0

\* C3: whenever the reminder of a request has had its delivery attempt, the
\* acknowledgement of that request had its delivery attempt earlier.
C3_AckBeforeReminder ==
  \A r \in Reqs :
    \A i \in Attempts(r, "reminder") :
      \E j \in Replies(r, "ack") : j < i

\* C3 witness: the reminder is delivered while the handler still awaits the
\* acknowledgement's ctx.send.
C3_ReminderDuringAckSend ==
  \E r \in Reqs : req[r].pc = "send" /\ Attempts(r, "reminder") # {}

\* C4 (as stated; refuted): a finished mention whose command text does not
\* match made exactly one delivery attempt, of the usage help, armed no
\* reminder task and did not end in an error.
C4_HelpReplyOnNoMatch ==
  \A r \in Reqs :
    (IsMention(r) /\ ~req[r].parsed.ok /\ req[r].pc = "done") =>
      /\ Len(deliveries[r]) = 1
      /\ Cardinality(Replies(r, "help")) = 1
      /\ task[r].pc = "none"
      /\ req[r].status = 202

\* C5 (as stated; refuted): every finished inbox request answered 202, or
\* 400 when its actor could not be resolved.
C5_Only202Or400 ==
  \A r \in Reqs :
    req[r].pc = "done" =>
      \/ req[r].status = 202
      \/ req[r].status = 400 /\ req[r].fetched \in {"none", "raise"}

\* C6 (as stated; refuted): a reminder task that no longer exists has made
\* its delivery attempt.
C6_EndedTaskDelivered ==
  \A r \in Reqs : TaskOver(r) => Attempts(r, "reminder") # {}

\* This step handles one object-fetch request; lastFetch' is its response.
Fetched == fetches' = fetches + 1

\* The response was served from CACHE, without reading ACTIVITY_STORE.
FromCache(f) == f.cache = "fresh"

\* C7: when a fetch of U read the store and returned 200, and the next fetch
\* is of U again and comes less than CACHE_TTL later, that fetch returns 200
\* with the same activity and is served from the cache: of the two, only the
\* first reads the store.
C7_SecondFetchFromCache ==
  [][(/\ Fetched
      /\ lastFetch.uri = lastFetch'.uri
      /\ lastFetch.status = 200
      /\ ~FromCache(lastFetch)
      /\ lastFetch'.time - lastFetch.time < CACHE_TTL)
     => /\ lastFetch'.status = 200
        /\ lastFetch'.activity = lastFetch.activity
        /\ FromCache(lastFetch')]_vars

\* C7 witness: a fetch was served from the cache at the last instant of the
\* entry's life, CACHE_TTL - 1 after the fetch that inserted it.
C7_ServedAtLastSecond ==
  /\ FromCache(lastFetch)
  /\ lastFetch.time - CACHE[lastFetch.uri].timestamp = CACHE_TTL - 1

\* C8: a fetch is served from the cache only while now - timestamp < CACHE_TTL
\* for its entry; a fetch of a cached URI at or after timestamp + CACHE_TTL
\* reads the store, returns 200 with the activity the entry held, and
\* re-inserts the entry.
C8_ExpiredEntryNotServed ==
  [][Fetched =>
       LET u == lastFetch'.uri
       IN /\ FromCache(lastFetch') =>
               u \in DOMAIN CACHE /\ now - CACHE[u].timestamp < CACHE_TTL
          /\ (u \in DOMAIN CACHE /\ now >= CACHE[u].timestamp + CACHE_TTL) =>
               /\ ~FromCache(lastFetch')
               /\ lastFetch'.status = 200
               /\ lastFetch'.activity = CACHE[u].activity
               /\ CACHE'[u] = [activity |-> ACTIVITY_STORE[u], timestamp |-> now]]_vars

\* C8 witness: a fetch found its entry expired exactly CACHE_TTL after the
\* insertion, read the store and returned 200.
C8_RereadAtExpiry ==
  /\ lastFetch.cache = "expired"
  /\ lastFetch.status = 200
  /\ lastFetch.time = CACHE_TTL

\* C9: a fetch that returns 404 is of a URI absent from the store and leaves
\* CACHE as it was; a fetch of a URI present in the store returns 200,
\* whether or not 404 was answered for it before.
C9_NotFoundNotCached ==
  [][Fetched =>
       /\ lastFetch'.status = 404 =>
            lastFetch'.uri \notin DOMAIN ACTIVITY_STORE /\ CACHE' = CACHE
       /\ lastFetch'.uri \in DOMAIN ACTIVITY_STORE => lastFetch'.status = 200]_vars

\* C9 witness: 200 for a URI for which 404 was answered earlier.
C9_FoundAfterNotFound ==
  /\ lastFetch.status = 200
  /\ answers[lastFetch.uri].missed

\* C10: a fetch returns 200 exactly when its URI is in the store, and then the
\* activity the first 200 for that URI carried; no step removes or changes an
\* entry of the store.
C10_StoredIsServedForGood ==
  [][/\ \A u \in DOMAIN ACTIVITY_STORE :
          u \in DOMAIN ACTIVITY_STORE' /\ ACTIVITY_STORE'[u] = ACTIVITY_STORE[u]
     /\ Fetched =>
          /\ lastFetch'.status \in {200, 404}
          /\ lastFetch'.status = 200 <=> lastFetch'.uri \in DOMAIN ACTIVITY_STORE
          /\ answers[lastFetch'.uri].served # NoActivity =>
               /\ lastFetch'.status = 200
               /\ lastFetch'.activity = answers[lastFetch'.uri].served]_vars

\* C10 witness: 200 again, by a new read of the store, for a create that was
\* served before (its cache entry has expired), after the request's reminder
\* has fired and stored its own note and create.
C10_ServedAgainAfterReminder ==
  /\ lastFetch.status = 200
  /\ lastFetch.uri = CreateUri(2)
  /\ lastFetch.cache = "expired"
  /\ answers[lastFetch.uri].served = lastFetch.activity
  /\ \E r \in Reqs : Attempts(r, "reminder") # {}

\* C11: over any sequence of starts, a start changes the key file only when
\* it found none; a start that found a file left it as it was and generated
\* no key, it succeeded exactly when the file was parsable and then serves
\* with the key the file holds; every successful start after a successful
\* one loaded the same key, and every actor document served, in whichever
\* process lifetime, carries the same public key.
C11_KeyFileWrittenOnlyWhenAbsent ==
  /\ \A i \in 1..Len(startLog) :
       LET s == startLog[i]
       IN /\ s.left # s.found => s.found = NoFile
          /\ s.found # NoFile =>
               /\ ~s.generated
               /\ s.left = s.found
               /\ s.ok <=> Parsable(s.found)
               /\ s.ok => s.key = s.found.key
          /\ i > 1 => s.found = startLog[i - 1].left
  /\ \A i, j \in 1..Len(startLog) :
       (i < j /\ startLog[i].ok /\ startLog[j].ok) =>
         ~startLog[j].generated /\ startLog[j].key = startLog[i].key
  /\ startLog # <<>> => keyFile = startLog[Len(startLog)].left
  /\ proc = "up" =>
       /\ private_key = startLog[Len(startLog)].key
       /\ public_key_pem = public_bytes(private_key)
  /\ \A p, q \in published : p[2] = q[2]

\* C11 witness: the first start generated the key and wrote the file, a
\* later start loaded it, and the actor document was served in both
\* lifetimes.
C11_RestartLoadedWrittenKey ==
  /\ proc = "up"
  /\ Len(startLog) > 1
  /\ startLog[1].generated /\ startLog[1].ok
  /\ ~startLog[Len(startLog)].generated
  /\ {p[1] : p \in published} = {1, Len(startLog)}

\* C12 (as stated; refuted): the parser returns a result exactly for the
\* texts made of optional whitespace, one or more digits n, optional
\* whitespace, one of s, m, h, d in either case, and a rest; the delay is n
\* times the unit, the message is the rest trimmed, or the default text
\* when that is empty; every other text yields NoMatch.
C12_ParsesExactlyTheGrammar ==
  result.called =>
    LET d0 == SkipSpace(text, 1)
        d1 == SkipDigits(text, d0)
        u  == SkipSpace(text, d1)
        inForm == /\ d1 > d0
                  /\ u <= Len(text)
                  /\ text[u] \in {"s", "m", "h", "d", "S", "M", "H", "D"}
        rest == Strip(Drop(text, u + 1))
    IN IF inForm
       THEN /\ result.value.ok
            /\ result.value.delay =
                 ToInt(SubSeq(text, d0, d1 - 1)) * UnitSeconds(Lower(text[u]))
            /\ result.value.message = (IF rest = <<>> THEN DefaultMessage ELSE rest)
       ELSE ~result.value.ok

\* C13 (as stated; refuted): the discovery endpoint answers 200 with one
\* self link to the actor for the query of the configured username and host
\* pair and 404 for every other query.
C13_OnlyTheHandleIsFound ==
  webfinger # NoLookup =>
    IF webfinger.acct = [username |-> USER_ID, host |-> HOST, url |-> ""]
    THEN webfinger.status = 200 /\ webfinger.links = <<SelfLink>>
    ELSE webfinger.status = 404

\* C13 (amended): the discovery endpoint answers 200 with one self link to
\* the actor for two kinds of query, a resource without URL whose username
\* and host are the configured pair, and a URL resource whose URL is the
\* actor's URI; it answers 404 for every other query.
C13_HandleOrActorUriIsFound ==
  webfinger # NoLookup =>
    IF \/ /\ webfinger.acct.url = ""
          /\ webfinger.acct.username = USER_ID
          /\ webfinger.acct.host = HOST
       \/ webfinger.acct.url = ActorId
    THEN webfinger.status = 200 /\ webfinger.links = <<SelfLink>>
    ELSE webfinger.status = 404 /\ webfinger.links = <<>>

\* C13 witness: 200 for a query that names the actor by its URI.
C13_FoundByActorUri ==
  /\ webfinger.status = 200
  /\ webfinger.acct.url = ActorId
  /\ webfinger.acct.username # USER_ID

\* C14 (as stated; refuted): for every mention whose command text the parser
\* matches, whatever the magnitude, once the sender is resolved a reminder
\* task is armed with the parsed delay and the one reply sent is the
\* acknowledgement naming that delay, not the usage help.
C14_EveryMatchedCommandArms ==
  \A r \in Reqs :
    (IsMention(r) /\ req[r].parsed.ok /\ req[r].fetched = "ok") =>
      /\ task[r].pc # "none"
      /\ task[r].delay = req[r].parsed.delay
      /\ Replies(r, "help") = {}
      /\ Cardinality(Replies(r, "ack")) = 1
      /\ \A i \in Replies(r, "ack") :
           ContentOf(deliveries[r][i]).time_str = req[r].parsed.time_str

\* C15 (as stated; refuted): a reminder task whose re-fetch of the target
\* raised or returned nothing goes on with the actor it was armed with: its
\* note and create are stored and its delivery attempt is made, addressed to
\* that actor.
C15_RefetchFailureKeepsSnapshot ==
  \A r \in Reqs :
    task[r].refetched \in {"raise", "none"} =>
      /\ task[r].target = req[r].sender
      /\ task[r].pc \in {"sending", "done", "failed"}
      /\ Cardinality(Attempts(r, "reminder")) = 1
      /\ \A i \in Attempts(r, "reminder") :
           LET d == deliveries[r][i]
           IN /\ d.to = req[r].sender.id
              /\ d.activity \in DOMAIN ACTIVITY_STORE
              /\ ACTIVITY_STORE[d.activity].object.id \in DOMAIN ACTIVITY_STORE

\* C16: in the step that makes the delivery attempt of a reply (the
\* acknowledgement or the usage help) or of a reminder, the create delivered
\* and its note enter the store under two different URIs, neither of which
\* was in the store or was delivered before; and every create delivered so
\* far, with its note, is in the store after every step.
C16_StoredUnderFreshUrisAtDelivery ==
  [][\A r \in Reqs :
       /\ Len(deliveries'[r]) > Len(deliveries[r]) =>
            LET d == deliveries'[r][Len(deliveries'[r])]
            IN d.what \in {"reply", "reminder"} =>
                 /\ d.activity \in DOMAIN ACTIVITY_STORE'
                 /\ d.activity \notin DOMAIN ACTIVITY_STORE
                 /\ LET note == ACTIVITY_STORE'[d.activity].object
                    IN /\ note.id \in DOMAIN ACTIVITY_STORE'
                       /\ note.id \notin DOMAIN ACTIVITY_STORE
                       /\ note.id # d.activity
                 /\ \A q \in Reqs : \A i \in 1..Len(deliveries[q]) :
                      deliveries[q][i].what # "Accept" =>
                        /\ deliveries[q][i].activity # d.activity
                        /\ ACTIVITY_STORE[deliveries[q][i].activity].object.id
                             # ACTIVITY_STORE'[d.activity].object.id
       /\ \A i \in 1..Len(deliveries'[r]) :
            LET d == deliveries'[r][i]
            IN d.what # "Accept" =>
                 /\ d.activity \in DOMAIN ACTIVITY_STORE'
                 /\ ACTIVITY_STORE'[d.activity].type = "Create"
                 /\ ACTIVITY_STORE'[d.activity].id = d.activity
                 /\ LET note == ACTIVITY_STORE'[d.activity].object
                    IN /\ note.id \in DOMAIN ACTIVITY_STORE'
                       /\ ACTIVITY_STORE'[note.id] = NoteActivity(note)]_vars

\* C16 witness: the acknowledgement and then the reminder of one request
\* have had their delivery attempts; their two creates and two notes are
\* four entries of the store.
C16_AckAndReminderStored ==
  \E r \in Reqs :
    /\ Replies(r, "ack") # {}
    /\ Attempts(r, "reminder") # {}
    /\ Cardinality(DOMAIN ACTIVITY_STORE) = 4

\* C17: the step that handles a Create whose object is not a Note, or whose
\* note has no Mention tag with href equal to the actor's URI, ends the
\* request with 202 without an actor fetch and leaves the store, the cache,
\* the reminder tasks and the delivery logs as they were; such a request
\* never has a task or a delivery attempt.
C17_IgnoredCreateChangesNothing ==
  [][\A r \in Reqs :
       LET ignored == /\ req'[r].act.type = "Create"
                      /\ \/ req'[r].act.object # "Note"
                         \/ req'[r].act.mention # ActorId
       IN /\ (ignored /\ req[r].pc = "idle") =>
               /\ req'[r].pc = "done"
               /\ req'[r].status = 202
               /\ req'[r].fetched = "-"
               /\ ACTIVITY_STORE' = ACTIVITY_STORE
               /\ CACHE' = CACHE
               /\ uuids' = uuids
               /\ task' = task
               /\ deliveries' = deliveries
          /\ ignored =>
               /\ req'[r].pc = "done"
               /\ task'[r] = NoTask
               /\ deliveries'[r] = <<>>]_vars

\* C17 witness: a Create of a note that mentions somebody else was answered
\* 202.
C17_OtherMentionAnswered202 ==
  \E r \in Reqs :
    /\ req[r].pc = "done"
    /\ req[r].act.type = "Create"
    /\ req[r].act.object = "Note"
    /\ req[r].act.mention \notin {"", ActorId}
    /\ req[r].status = 202

\* C18 (as stated; refuted): once a reminder task is armed, no step makes it
\* disappear, no step of the request that armed it changes it, and it does
\* not end before it has made its delivery attempt.
C18_ArmedTaskReachesDelivery ==
  [][\A r \in Reqs :
       task[r].pc # "none" =>
         /\ task'[r].pc # "none"
         /\ req'[r] # req[r] => task'[r] = task[r]
         /\ task'[r].pc \in {"done", "failed", "crashed"} =>
              \E i \in 1..Len(deliveries'[r]) : deliveries'[r][i].what = "reminder"]_vars

\* C19: every cache entry is keyed by a URI of the store and holds the
\* activity the store holds for it, and the activity of a response served
\* from the cache is the one the store holds for its URI.
C19_CacheAgreesWithStore ==
  /\ \A u \in DOMAIN CACHE :
       /\ u \in DOMAIN ACTIVITY_STORE
       /\ CACHE[u].activity = ACTIVITY_STORE[u]
  /\ FromCache(lastFetch) =>
       /\ lastFetch.uri \in DOMAIN ACTIVITY_STORE
       /\ lastFetch.activity = ACTIVITY_STORE[lastFetch.uri]

\* C19 witness: the latest response was served from a cache entry inserted
\* at time 0, at a later time, and the store holds a reminder's note and
\* create, stored after that entry was inserted.
C19_CacheHitAndStoreGrown ==
  /\ FromCache(lastFetch)
  /\ \E r \in Reqs : \E i \in Attempts(r, "reminder") :
       deliveries[r][i].activity \in DOMAIN ACTIVITY_STORE
  /\ CACHE[lastFetch.uri].timestamp = 0
  /\ lastFetch.time > 0

\* C20: a fetch served from the cache leaves CACHE, timestamps included, as
\* it was, and comes less than CACHE_TTL after its entry's timestamp; CACHE
\* changes only in a fetch that reads the store, which sets the timestamp of
\* the fetched URI's entry to the time of that read and changes no other
\* entry; and a fetch of a URI whose entry is CACHE_TTL old reads the store
\* even when the fetch before it was a hit on the same entry.
C20_CacheHitDoesNotSlide ==
  [][IF Fetched
     THEN LET u == lastFetch'.uri
          IN /\ FromCache(lastFetch') =>
                  /\ CACHE' = CACHE
                  /\ now - CACHE[u].timestamp < CACHE_TTL
             /\ CACHE' # CACHE =>
                  /\ ~FromCache(lastFetch')
                  /\ CACHE'[u].timestamp = now
                  /\ \A v \in DOMAIN CACHE : v # u => CACHE'[v] = CACHE[v]
             /\ (/\ FromCache(lastFetch)
                 /\ lastFetch.uri = u
                 /\ now - CACHE[u].timestamp >= CACHE_TTL) =>
                  /\ ~FromCache(lastFetch')
                  /\ CACHE'[u].timestamp = now
     ELSE CACHE' = CACHE]_vars

\* C20 witness: an entry was served from the cache less than CACHE_TTL ago
\* and is now CACHE_TTL old: its lifetime did not start again at the hit.
C20_ExpiredSoonAfterHit ==
  /\ FromCache(lastFetch)
  /\ now - lastFetch.time < CACHE_TTL
  /\ now - CACHE[lastFetch.uri].timestamp >= CACHE_TTL
  /\ ~CacheFresh(lastFetch.uri)

====
